---- MODULE Spec2Model ----
(***************************************************************************)
(* Model of the branch-growth engine of pygame_2d_random_fractals.pyw:     *)
(* Tree, Branch, generate_tree, and the arithmetic they use.               *)
(*                                                                         *)
(* Numbers.  Python floats are binary floating-point numbers rounded to    *)
(* nearest, ties to even.  A number is modelled as <<m, e>>, the value     *)
(* m * 2^e, kept canonical (m odd, or <<0, 0>>), and every arithmetic      *)
(* operation rounds its exact result to Precision significant bits.  The   *)
(* exponent is unbounded (no overflow, no underflow).                      *)
(***************************************************************************)
EXTENDS Integers, Sequences, FiniteSets, TLC

\* Significant bits of a float of the model (53 in CPython).
Precision == 11

\* The one element of a singleton set.  An operator written
\*     Only({body(v) : v \in {<<x, y>>}})
\* computes its arguments once, whatever the number of places body uses them in.
Only(S) == CHOOSE v \in S : TRUE

Pow2(k) == IF k <= 0 THEN 1 ELSE 2^k

Abs(n) == IF n < 0 THEN -n ELSE n

Sign(n) == IF n < 0 THEN -1 ELSE IF n = 0 THEN 0 ELSE 1

\* Number of bits of the natural number n, and number of its trailing zero
\* bits (n > 0), bit by bit.
RECURSIVE CountBits(_)
CountBits(n) == IF n = 0 THEN 0 ELSE 1 + CountBits(n \div 2)

RECURSIVE CountTrailingZeros(_)
CountTrailingZeros(n) == IF n % 2 = 1 THEN 0 ELSE 1 + CountTrailingZeros(n \div 2)

\* The same for the numbers of up to Precision + 1 bits, tabulated.
Chunk == 2^(Precision + 1)

BitsTable == [n \in 0..(Chunk - 1) |-> CountBits(n)]

ZerosTable == [n \in 1..(Chunk - 1) |-> CountTrailingZeros(n)]

\* Number of bits of the natural number n.
RECURSIVE BitLen(_)
BitLen(n) ==
    IF n < Chunk THEN BitsTable[n] ELSE Precision + 1 + BitLen(n \div Chunk)

\* The canonical pair of the value m * 2^e.
RECURSIVE Canon(_, _)
Canon(m, e) ==
    IF m = 0 THEN <<0, 0>>
    ELSE IF Abs(m) % Chunk = 0 THEN Canon(m \div Chunk, e + Precision + 1)
    ELSE Only({ <<m \div (2^z), e + z>> : z \in {ZerosTable[Abs(m) % Chunk]} })

\* The float nearest to the exact value m * 2^e (ties to even).
RoundValue(m, e) ==
    LET a == Abs(m)
        s == BitLen(a) - Precision
    IN  IF s <= 0 THEN Canon(m, e)
        ELSE LET q    == a \div Pow2(s)
                 r    == a % Pow2(s)
                 half == Pow2(s - 1)
                 n    == IF r > half \/ (r = half /\ q % 2 = 1) THEN q + 1 ELSE q
             IN  Canon(Sign(m) * n, e + s)

Round(m, e) == Only({RoundValue(v[1], v[2]) : v \in {<<m, e>>}})

Zero == <<0, 0>>
One  == <<1, 0>>

\* The float of an integer literal.
FInt(n) == Round(n, 0)

\* Exponent of the leading bit of a nonzero float, plus one.
Top(x) == x[2] + BitLen(Abs(x[1]))

\* Exact sum and difference of two values (no rounding), and exact comparisons.
ExactSum(x, y) ==
    LET lo == IF x[2] < y[2] THEN x[2] ELSE y[2]
    IN  Canon(x[1] * Pow2(x[2] - lo) + y[1] * Pow2(y[2] - lo), lo)

FNeg(x) == <<-x[1], x[2]>>

FMul(x, y) == Only({Round(v[1][1] * v[2][1], v[1][2] + v[2][2]) : v \in {<<x, y>>}})

\* x + y.  An operand below a quarter of the other's last place cannot change it.
FAddValue(x, y) ==
    IF x[1] = 0 THEN y
    ELSE IF y[1] = 0 THEN x
    ELSE IF Top(x) - Top(y) >= Precision + 2 THEN x
    ELSE IF Top(y) - Top(x) >= Precision + 2 THEN y
    ELSE LET lo == IF x[2] < y[2] THEN x[2] ELSE y[2]
         IN  Round(x[1] * Pow2(x[2] - lo) + y[1] * Pow2(y[2] - lo), lo)

FAdd(x, y) == Only({FAddValue(v[1], v[2]) : v \in {<<x, y>>}})

FSub(x, y) == FAdd(x, FNeg(y))

\* x < y: the rounded difference has the sign of the exact one.
FLess(x, y) == FSub(x, y)[1] < 0

FLeq(x, y) == ~FLess(y, x)

\* The float nearest to the ratio n / d (d > 0): a decimal literal such as 0.0003.
RECURSIVE ScaleUp(_, _, _)
ScaleUp(a, d, k) == IF a >= d * Pow2(Precision) THEN <<a, k>> ELSE ScaleUp(2 * a, d, k + 1)

FromRatio(n, d) ==
    IF n = 0 THEN Zero
    ELSE LET sc     == ScaleUp(Abs(n), d, 0)
             q      == sc[1] \div d
             sticky == IF sc[1] % d = 0 THEN 0 ELSE 1
         IN  Round(Sign(n) * (2 * q + sticky), -sc[2] - 1)

\* int(x): truncation toward zero.
Trunc(x) ==
    Only({ IF v[2] >= 0 THEN v[1] * Pow2(v[2])
           ELSE Sign(v[1]) * (Abs(v[1]) \div Pow2(-v[2])) : v \in {x} })

\* x ** k for the exponents 0 and 1 (exact: x ** 0 is 1, x ** 1 is x).
RECURSIVE Pow(_, _)
Pow(x, k) == IF k = 0 THEN One ELSE FMul(x, Pow(x, k - 1))

(***************************************************************************)
(* State.                                                                  *)
(*   settings         the module's SETTINGS: MAX_BRANCH_COUNT,             *)
(*                    MINIMUM_BRANCH_SIZE and the presets list             *)
(*   angle            the global initial direction of the pointer          *)
(*   click            the mouse position the tree is generated at          *)
(*   pc               where generate_tree is: "idle" before the call,      *)
(*                    "loop" in the for loop, "returned", or "raised" when *)
(*                    an exception leaves the function                     *)
(*   stopped          how the loop ended: "IndexError" (break) or "range"  *)
(*   i                the loop variable: the index requested next          *)
(*   tree             the Tree object of the running call                  *)
(*   fractal_surface  the line calls made on the surface, in order         *)
(*   rng              the random module: the standard normal variates it   *)
(*                    has produced since it was seeded and how many of     *)
(*                    them have been consumed since the last seeding       *)
(*   history          what the current call has done (not program state):  *)
(*                    the branches activated, the splits performed, the    *)
(*                    generation of every slot, and for every call the     *)
(*                    part of the surface it drew and the variates it used *)
(*   probe            one application of a pure function: its arguments    *)
(*                    and, once applied, its result                        *)
(*   ui               the event loop: the controls panel, the mouse, the    *)
(*                    events of the frame still to be handled              *)
(***************************************************************************)
VARIABLES settings, angle, click, pc, stopped, i, tree, fractal_surface, rng,
          history, probe, ui

vars == <<settings, angle, click, pc, stopped, i, tree, fractal_surface, rng,
          history, probe, ui>>

\* Largest MAX_BRANCH_COUNT the model runs with.
MaxCap == 5

\* The empty slot of a branch list.
None == [none |-> TRUE]

\* seq[k] with Python's 0-based index.
At(seq, k) == seq[k + 1]

\* The presets list: lengths in pixels, angles in radians.  The two size
\* exponents that are 0.3 in the source are 1 here (Pow takes 0 and 1 only).
presets ==
    <<FInt(3), 1, FInt(15), FInt(5), 1,
      FromRatio(5236, 10000), FromRatio(3927, 10000), 0>>

\* The values of MINIMUM_BRANCH_SIZE the model runs with: the source's 0.0003,
\* and 0.5, with which a tree is exhausted within a few activations.
MinimumBranchSizes == {FromRatio(3, 10000), FromRatio(1, 2)}

SettingsSet ==
    [MAX_BRANCH_COUNT : 1..MaxCap,
     MINIMUM_BRANCH_SIZE : MinimumBranchSizes,
     presets : {presets}]

\* Standard normal variates the random module may produce (random.gauss
\* computes cos(2*pi*u) * sqrt(-2*log(1 - v)) from two uniform variates, which
\* is 0 when v is 0, is as small as the product of the two factors' smallest
\* values, and is never beyond 8.6 in magnitude).
ZLow  == FInt(-8)
ZNeg  == FInt(-5)
ZTiny == Canon(-1, -20)
ZZero == Zero
ZPos  == FromRatio(5, 2)
ZMid  == FInt(3)
ZHigh == FInt(8)

\* The variate drawn for the seed's length.
SeedDraws == {<<ZNeg>>, <<ZPos>>}

\* The four variates one split draws, in the order it draws them.
SplitDraws ==
    {<<ZNeg,  ZPos,  ZNeg, ZHigh>>,
     <<ZPos,  ZNeg,  ZPos, ZNeg>>,
     <<ZTiny, ZPos,  ZLow, ZPos>>,
     <<ZZero, ZHigh, ZPos, ZLow>>,
     <<ZMid,  ZNeg,  ZPos, ZPos>>}

\* random.gauss(mu, sigma) on the variate z.
gauss(mu, sigma, z) == FAdd(mu, FMul(z, sigma))

\* The variates d are what the generator yields next: those already produced
\* since the seeding are fixed, the ones past them are fresh.
Feeds(d) ==
    \A k \in 1..Len(d) :
        rng.pos + k <= Len(rng.stream) => d[k] = rng.stream[rng.pos + k]

\* The generator after yielding the variates d.
Consume(d) ==
    [stream |-> SubSeq(rng.stream, 1, rng.pos) \o d
                  \o SubSeq(rng.stream, rng.pos + Len(d) + 1, Len(rng.stream)),
     pos    |-> rng.pos + Len(d)]

\* The proportion without the fold of negative samples.
proportion_unfolded(x) ==
    Only({ Only({ IF FLess(smaller, Zero) THEN Zero ELSE smaller :
                  smaller \in {IF FLess(One, sample) THEN One ELSE sample} }) :
           sample \in {x} })

\* The split proportion from the sample x.
proportion(x) ==
    Only({ Only({ Only({ IF FLess(smaller, Zero) THEN Zero ELSE smaller :
                         smaller \in {IF FLess(One, folded) THEN One ELSE folded} }) :
                  folded \in {IF FLess(sample, Zero) THEN FAdd(One, sample) ELSE sample} }) :
           sample \in {x} })

\* The first child given the parent's size and the proportion on top of it.
branch_1_size_grown(prev_size, p) == FMul(prev_size, FAdd(One, p))

branch_1_size(prev_size, p) == FMul(prev_size, p)

\* The second child taking the parent's whole size.
branch_2_size_whole(prev_size, p) == prev_size

\* The second child given the first child's share.
branch_2_size_same_share(prev_size, p) == FMul(prev_size, p)

branch_2_size(prev_size, p) == FMul(prev_size, FSub(One, p))

\* The first child deviating by the second child's share of the angle.
branch_1_angle_swapped(prev_direction, a, p) == FSub(prev_direction, FMul(a, p))

branch_1_angle(prev_direction, a, p) == FSub(prev_direction, FMul(a, FSub(One, p)))

branch_2_angle(prev_direction, a, p) == FAdd(prev_direction, FMul(a, p))

Branch(index, pos, branch_size, branch_length, branch_direction) ==
    [index |-> index, pos |-> pos, branch_size |-> branch_size,
     branch_length |-> branch_length, branch_direction |-> branch_direction]

\* Tree.__init__ on the variate z drawn for the seed's length.
Tree(surface, initial_pos, initial_direction, ps, z) ==
    [surface |-> surface,
     branch_width |-> ps[1], branch_width_factor |-> ps[2],
     branch_length_mean |-> ps[3], branch_length_range |-> ps[4],
     branch_length_factor |-> ps[5],
     branch_angle_mean |-> ps[6], branch_angle_range |-> ps[7],
     branch_angle_factor |-> ps[8],
     branches |-> <<Branch(0, initial_pos, One, gauss(ps[3], ps[4], z),
                           initial_direction)>>]

\* The values of a split that draws the second child's length before the
\* first child's.
SplitValuesLengthsSwapped(t, prev_size, prev_direction, d) ==
    Only({ Only({ Only({
        [proportion |-> p, size1 |-> s[1], size2 |-> s[2],
         length1 |-> FMul(gauss(t.branch_length_mean, t.branch_length_range, d[3]),
                          Pow(s[1], t.branch_length_factor)),
         length2 |-> FMul(gauss(t.branch_length_mean, t.branch_length_range, d[2]),
                          Pow(s[2], t.branch_length_factor)),
         angle |-> a,
         angle1 |-> branch_1_angle(prev_direction, a, p),
         angle2 |-> branch_2_angle(prev_direction, a, p)] :
        a \in {FMul(gauss(t.branch_angle_mean, t.branch_angle_range, d[4]),
                    Pow(prev_size, t.branch_angle_factor))} }) :
        s \in {<<branch_1_size(prev_size, p), branch_2_size(prev_size, p)>>} }) :
        p \in {proportion(gauss(Zero, FromRatio(1, 10), d[1]))} })

\* The values branch_split computes from the variates d.
SplitValues(t, prev_size, prev_direction, d) ==
    Only({ Only({ Only({
        [proportion |-> p, size1 |-> s[1], size2 |-> s[2],
         length1 |-> FMul(gauss(t.branch_length_mean, t.branch_length_range, d[2]),
                          Pow(s[1], t.branch_length_factor)),
         length2 |-> FMul(gauss(t.branch_length_mean, t.branch_length_range, d[3]),
                          Pow(s[2], t.branch_length_factor)),
         angle |-> a,
         angle1 |-> branch_1_angle(prev_direction, a, p),
         angle2 |-> branch_2_angle(prev_direction, a, p)] :
        a \in {FMul(gauss(t.branch_angle_mean, t.branch_angle_range, d[4]),
                    Pow(prev_size, t.branch_angle_factor))} }) :
        s \in {<<branch_1_size(prev_size, p), branch_2_size(prev_size, p)>>} }) :
        p \in {proportion(gauss(Zero, FromRatio(1, 10), d[1]))} })

\* branch_split without its first statement: the parent's slot is left as it was.
branch_split_keeps_parent(t, index, pos, prev_size, prev_direction, d) ==
    Only({ LET new_branch_1 == Branch(Len(t.branches), pos, v.size1, v.length1, v.angle1)
               new_branch_2 == Branch(Len(t.branches) + 1, pos, v.size2, v.length2, v.angle2)
           IN  Append(Append(t.branches, new_branch_1), new_branch_2) :
           v \in {SplitValues(t, prev_size, prev_direction, d)} })

\* branch_split giving both children the same index.
branch_split_same_index(t, index, pos, prev_size, prev_direction, d) ==
    Only({ LET cleared == [t.branches EXCEPT ![index + 1] = None]
               new_branch_1 == Branch(Len(cleared), pos, v.size1, v.length1, v.angle1)
               new_branch_2 == Branch(Len(cleared), pos, v.size2, v.length2, v.angle2)
           IN  Append(Append(cleared, new_branch_1), new_branch_2) :
           v \in {SplitValues(t, prev_size, prev_direction, d)} })

\* Tree.branch_split: the branch list afterwards.
branch_split(t, index, pos, prev_size, prev_direction, d) ==
    Only({ LET cleared == [t.branches EXCEPT ![index + 1] = None]
               new_branch_1 == Branch(Len(cleared), pos, v.size1, v.length1, v.angle1)
               new_branch_2 == Branch(Len(cleared) + 1, pos, v.size2, v.length2, v.angle2)
           IN  Append(Append(cleared, new_branch_1), new_branch_2) :
           v \in {SplitValues(t, prev_size, prev_direction, d)} })

\* A draw that never dims: the colour as given, the width at least 1.
draw_undimmed(surface, color, pos1, pos2, width) ==
    Only({ [surface |-> surface, color |-> color, pos1 |-> pos1, pos2 |-> pos2,
            width |-> IF FLess(w, One) THEN 1 ELSE Trunc(w)] : w \in {width} })

\* Branch.draw: the call it makes on pygame.draw.line.
draw(surface, color, pos1, pos2, width) ==
    Only({ IF FLess(w, One)
           THEN [surface |-> surface,
                 color |-> <<FMul(color[1], w), FMul(color[2], w), FMul(color[3], w)>>,
                 pos1 |-> pos1, pos2 |-> pos2, width |-> Trunc(One)]
           ELSE [surface |-> surface, color |-> color, pos1 |-> pos1, pos2 |-> pos2,
                 width |-> Trunc(w)] :
           w \in {width} })

White == <<FInt(255), FInt(255), FInt(255)>>

\* The end point of a branch: pos moved by its length along its direction.
\* math.cos and math.sin are not evaluated: the point is kept as the term
\* that determines it.
final_pos(b) == <<"from", b.pos, b.branch_direction, b.branch_length>>

\* The line Branch.activate draws for branch b of tree t.
ActivateDraw(t, b) ==
    draw(t.surface, White, b.pos, final_pos(b),
         FMul(t.branch_width, Pow(b.branch_size, t.branch_width_factor)))

\* An activation that splits a branch of the minimum size too.
SplitsAtMinimum(branch_size) == FLeq(settings.MINIMUM_BRANCH_SIZE, branch_size)

\* An activation that never splits.
SplitsNever(branch_size) == FALSE

\* An activation that splits whatever the size.
SplitsAlways(branch_size) == TRUE

\* Whether Branch.activate splits a branch of this size.
Splits(branch_size) == FLess(settings.MINIMUM_BRANCH_SIZE, branch_size)

\* An except clause that catches nothing.
CatchesNothing(exception) == FALSE

\* The exceptions the loop's except clause catches.
Catches(exception) == exception = "IndexError"

\* A range that is one index too long.
InRangeInclusive(k) == k <= settings.MAX_BRANCH_COUNT

\* The indices range(MAX_BRANCH_COUNT) still yields at index k.
InRange(k) == k < settings.MAX_BRANCH_COUNT

\* A loop that requests the same index again.
NextIndexRepeats(k) == k

\* A loop that steps over every other index.
NextIndexSkips(k) == k + 2

\* The index range(MAX_BRANCH_COUNT) yields after k.
NextIndex(k) == k + 1

NoTree == [branches |-> <<>>]

NoProbe == [fn |-> "none"]

\* No event loop: generate_tree is called on its own.
NoUI == [phase |-> "none"]

NoHistory == [activated |-> <<>>, splits |-> <<>>, depth |-> <<>>, calls |-> <<>>]

Init ==
    /\ settings \in SettingsSet
    /\ angle = Zero
    /\ click = <<"at", FInt(100), FInt(100)>>
    /\ pc = "idle"
    /\ stopped = "no"
    /\ i = 0
    /\ tree = NoTree
    /\ fractal_surface = <<>>
    /\ rng = [stream |-> <<>>, pos |-> 0]
    /\ history = NoHistory
    /\ probe = NoProbe
    /\ ui = NoUI

\* generate_tree up to its loop: the Tree is constructed.
generate_tree ==
    /\ pc = "idle"
    /\ \E d \in SeedDraws :
        /\ Feeds(d)
        /\ tree' = Tree("fractal_surface", click, angle, settings.presets, d[1])
        /\ rng' = Consume(d)
    /\ pc' = "loop"
    /\ i' = 0
    /\ stopped' = "no"
    /\ history' = [activated |-> <<>>, splits |-> <<>>, depth |-> <<0>>,
                   calls |-> Append(history.calls,
                                    [from |-> Len(fractal_surface), upto |-> -1,
                                     consumed |-> -1])]
    /\ UNCHANGED <<settings, angle, click, fractal_surface, probe, ui>>

\* One pass of the loop body on a valid index: tree.branches[i].activate().
loop_activate ==
    /\ pc = "loop"
    /\ InRange(i)
    /\ i < Len(tree.branches)
    /\ LET b == At(tree.branches, i)
       IN  IF b = None
           THEN /\ pc' = "raised"
                /\ UNCHANGED <<i, tree, fractal_surface, rng, history>>
           ELSE /\ fractal_surface' = Append(fractal_surface, ActivateDraw(tree, b))
                /\ pc' = "loop"
                /\ i' = NextIndex(i)
                /\ IF Splits(b.branch_size)
                   THEN \E d \in SplitDraws :
                          /\ Feeds(d)
                          /\ rng' = Consume(d)
                          /\ tree' = [tree EXCEPT !.branches =
                                        branch_split(tree, b.index, final_pos(b),
                                                     b.branch_size, b.branch_direction, d)]
                          /\ history' =
                               [history EXCEPT
                                  !.activated = Append(@, [index |-> i, size |-> b.branch_size,
                                                           slot |-> b.index]),
                                  !.splits = Append(@,
                                     [index |-> b.index, prev_size |-> b.branch_size,
                                      prev_direction |-> b.branch_direction,
                                      first |-> Len(tree.branches), at |-> rng.pos,
                                      draws |-> d,
                                      children |-> <<At(tree'.branches, Len(tree.branches)),
                                                     At(tree'.branches, Len(tree.branches) + 1)>>]),
                                  !.depth = Append(Append(@, At(@, i) + 1), At(@, i) + 1)]
                   ELSE /\ history' =
                               [history EXCEPT
                                  !.activated = Append(@, [index |-> i, size |-> b.branch_size,
                                                           slot |-> b.index])]
                        /\ UNCHANGED <<tree, rng>>
    /\ UNCHANGED <<settings, angle, click, stopped, probe, ui>>

\* The loop body on an index past the list: IndexError, caught, break.
loop_index_error ==
    /\ pc = "loop"
    /\ InRange(i)
    /\ i >= Len(tree.branches)
    /\ IF Catches("IndexError")
       THEN pc' = "returned" /\ stopped' = "IndexError"
       ELSE pc' = "raised" /\ stopped' = "no"
    /\ UNCHANGED <<settings, angle, click, i, tree, fractal_surface, rng, history, probe, ui>>

\* range(MAX_BRANCH_COUNT) is used up: the loop ends and generate_tree returns.
loop_end ==
    /\ pc = "loop"
    /\ ~InRange(i)
    /\ pc' = "returned"
    /\ stopped' = "range"
    /\ UNCHANGED <<settings, angle, click, i, tree, fractal_surface, rng, history, probe, ui>>

Next == generate_tree \/ loop_activate \/ loop_index_error \/ loop_end

Spec == Init /\ [][Next]_vars

\* The scheduling of generate_tree: a single thread that runs to completion.
FairSpec == Spec /\ WF_vars(Next)

(***************************************************************************)
(* The same call made again on the same random stream: the generator is    *)
(* seeded anew with the seed it was started with, so it repeats the        *)
(* variates it has produced, and generate_tree is called with the same     *)
(* click, angle and presets.                                               *)
(***************************************************************************)

\* Number of generate_tree calls made on one stream.
MaxRuns == 2

reseed ==
    /\ pc = "returned"
    /\ Len(history.calls) < MaxRuns
    /\ rng' = [rng EXCEPT !.pos = 0]
    /\ pc' = "idle"
    /\ history' = [history EXCEPT !.calls[Len(history.calls)] =
                      [from |-> @.from, upto |-> Len(fractal_surface),
                       consumed |-> rng.pos]]
    /\ UNCHANGED <<settings, angle, click, stopped, i, tree, fractal_surface, probe, ui>>

NextReplay == Next \/ reseed

SpecReplay == Init /\ [][NextReplay]_vars

(***************************************************************************)
(* The pure functions on their own: one application to arguments drawn     *)
(* from a grid.                                                            *)
(***************************************************************************)

\* The samples x are the twentieths from -XSpan/20 to XSpan/20.
XSpan == 30

\* The sizes are the SizeSteps-ths from 0 to 1.
SizeSteps == 10

\* The widths are the tenths from -WidthSpan/10 to WidthSpan/10.
WidthSpan == 40
AngleSpan == 12

XGrid == {FromRatio(k, 20) : k \in -XSpan..XSpan}

SizeGrid == {FromRatio(k, SizeSteps) : k \in 0..SizeSteps}

WidthGrid == {FromRatio(k, 10) : k \in -WidthSpan..WidthSpan}

ColorGrid == {White, <<FInt(200), FInt(100), Zero>>}

\* Directions of a parent: straight, one and several rotation steps, and more
\* than a turn.
DirectionGrid ==
    {Zero, FromRatio(-10472, 100000), FromRatio(-15708, 10000), FromRatio(7, 10), FInt(7)}

\* Sampled angles, in tenths of a radian.
AngleGrid == {FromRatio(k, 10) : k \in -AngleSpan..AngleSpan}

ProportionGrid == {proportion(x) : x \in XGrid}

ProbeInputs ==
    {[fn |-> "proportion", args |-> <<x>>, done |-> FALSE, out |-> <<>>] :
        x \in XGrid}
    \cup
    {[fn |-> "sizes", args |-> <<a[1], proportion(a[2])>>, done |-> FALSE, out |-> <<>>] :
        a \in SizeGrid \X XGrid}
    \cup
    {[fn |-> "draw", args |-> <<a[1], a[2]>>, done |-> FALSE, out |-> <<>>] :
        a \in ColorGrid \X WidthGrid}
    \cup
    {[fn |-> "angles", args |-> <<a[1], a[2], a[3]>>, done |-> FALSE, out |-> <<>>] :
        a \in DirectionGrid \X AngleGrid \X ProportionGrid}

InitProbe ==
    /\ settings \in {st \in SettingsSet : st.MAX_BRANCH_COUNT = 1}
    /\ angle = Zero
    /\ click = <<"at", FInt(100), FInt(100)>>
    /\ pc = "idle"
    /\ stopped = "no"
    /\ i = 0
    /\ tree = NoTree
    /\ fractal_surface = <<>>
    /\ rng = [stream |-> <<>>, pos |-> 0]
    /\ history = NoHistory
    /\ probe \in ProbeInputs
    /\ ui = NoUI

Unprobed == <<settings, angle, click, pc, stopped, i, tree, fractal_surface, rng, history, ui>>

apply_proportion ==
    /\ probe.fn = "proportion" /\ ~probe.done
    /\ probe' = [probe EXCEPT !.done = TRUE, !.out = <<proportion(probe.args[1])>>]
    /\ UNCHANGED Unprobed

apply_sizes ==
    /\ probe.fn = "sizes" /\ ~probe.done
    /\ probe' = [probe EXCEPT !.done = TRUE,
                   !.out = <<branch_1_size(probe.args[1], probe.args[2]),
                             branch_2_size(probe.args[1], probe.args[2])>>]
    /\ UNCHANGED Unprobed

apply_draw ==
    /\ probe.fn = "draw" /\ ~probe.done
    /\ probe' = [probe EXCEPT !.done = TRUE,
                   !.out = <<draw("fractal_surface", probe.args[1], click,
                                  <<"from", click, Zero, One>>, probe.args[2])>>]
    /\ UNCHANGED Unprobed

apply_angles ==
    /\ probe.fn = "angles" /\ ~probe.done
    /\ probe' = [probe EXCEPT !.done = TRUE,
                   !.out = <<branch_1_angle(probe.args[1], probe.args[2], probe.args[3]),
                             branch_2_angle(probe.args[1], probe.args[2], probe.args[3])>>]
    /\ UNCHANGED Unprobed

NextProbe == apply_proportion \/ apply_sizes \/ apply_draw \/ apply_angles

SpecProbe == InitProbe /\ [][NextProbe]_vars

(***************************************************************************)
(* One parent-to-child chain: a branch above the minimum size is split and *)
(* one of its two children is followed.                                    *)
(***************************************************************************)

MaxGenerations == 3

\* The proportion of the split made from the variates d.
ProportionOf(d) == proportion(gauss(Zero, FromRatio(1, 10), d[1]))

\* The same, tabulated over the variates a chain's splits draw.
ChainProportion == [d \in SplitDraws |-> ProportionOf(d)]

InitChain ==
    /\ settings \in {st \in SettingsSet :
                        /\ st.MAX_BRANCH_COUNT = 1
                        /\ st.MINIMUM_BRANCH_SIZE = FromRatio(3, 10000)}
    /\ angle = Zero
    /\ click = <<"at", FInt(100), FInt(100)>>
    /\ pc = "idle"
    /\ stopped = "no"
    /\ i = 0
    /\ tree = NoTree
    /\ fractal_surface = <<>>
    /\ rng = [stream |-> <<>>, pos |-> 0]
    /\ history = NoHistory
    /\ probe = [fn |-> "chain", branch_size |-> One, generation |-> 0,
                share |-> 0, draws |-> <<>>]
    /\ ui = NoUI

\* Branch.activate on the chain's branch when it splits (the sizes
\* branch_split gives the two children), and the step to the child that is
\* followed.  generation counts the splits up to MaxGenerations.
chain_split ==
    /\ probe.fn = "chain"
    /\ Splits(probe.branch_size)
    /\ \E d \in SplitDraws, child \in 1..2 :
          probe' = Only({ [fn |-> "chain",
                           branch_size |-> IF child = 1
                                           THEN branch_1_size(probe.branch_size, p)
                                           ELSE branch_2_size(probe.branch_size, p),
                           generation |-> IF probe.generation < MaxGenerations
                                          THEN probe.generation + 1
                                          ELSE MaxGenerations,
                           share |-> child, draws |-> d] :
                          p \in {ChainProportion[d]} })
    /\ UNCHANGED Unprobed

NextChain == chain_split

SpecChain == InitChain /\ [][NextChain]_vars

\* The loop keeps activating branches for as long as there is one to activate.
FairChain == SpecChain /\ WF_vars(chain_split)

(***************************************************************************)
(* The event loop: every frame it takes the pending events, handles them   *)
(* one by one (a left press may start a drag of the controls panel, press  *)
(* a button, or call generate_tree), then rotates the pointer while R is   *)
(* held and moves the panel while it is dragged.                           *)
(***************************************************************************)

\* Events handled, trees generated, mouse moves and rotations in one session.
MaxEvents == 3

MaxTrees == 2

MaxMoves == 1

MaxRotations == 1

\* pygame.Rect(...).collidepoint for a rect <<x, y, w, h>>.
collidepoint(rect, point) ==
    /\ rect[1] <= point[1] /\ point[1] < rect[1] + rect[3]
    /\ rect[2] <= point[2] /\ point[2] < rect[2] + rect[4]

\* controls_surface.get_size(), and the height of the panel's title bar.
controls_surface_size == <<120, 260>>

TitleBarHeight == 16

\* The buttons list: rect (relative to the panel) and action.
buttons ==
    <<[rect |-> <<10, 200, 100, 16>>, action |-> "clear_screen"],
      [rect |-> <<10, 225, 100, 16>>, action |-> "save_image"]>>

\* The rect of the title bar and of the whole panel at position pos.
TitleBarRect(pos) == <<pos[1], pos[2], controls_surface_size[1], TitleBarHeight>>

PanelRect(pos) == <<pos[1], pos[2], controls_surface_size[1], controls_surface_size[2]>>

\* The mouse position relative to the panel, as passed to the buttons.
RelativeTo(pos, point) == <<point[1] - pos[1], point[2] - pos[2]>>

\* Button.left_mouse_down on every button in turn: the actions called.
ButtonActions(pos, point) ==
    {buttons[b].action : b \in {c \in 1..Len(buttons) :
                                   collidepoint(buttons[c].rect, RelativeTo(pos, point))}}

\* clear_screen: the surface filled with black holds no segment.
clear_screen(surface) == <<>>

\* A save that leaves the surface blank.
save_image_blanks(surface) == <<>>

\* save_image: the surface after it has been written to a file.
save_image(surface) == surface

\* A press meant for the panel that also generates a tree: the panel test
\* looks at the title bar only.
DrawsFractalOffTitleBar(pos, point) == ~collidepoint(TitleBarRect(pos), point)

\* Whether a left press at point calls generate_tree.
DrawsFractal(pos, point) == ~collidepoint(PanelRect(pos), point)

\* The angle the pointer turns by in a frame with R held: 2 * math.pi / 60.
Rotation == FromRatio(10472, 100000)

\* Mouse positions: off the panel, on the title bar, on each button, on the
\* panel's body, and on the first column right of the panel.
MousePoints ==
    {<<100, 100>>, <<610, 65>>, <<650, 265>>, <<650, 290>>, <<650, 150>>, <<720, 100>>}

\* The events one pygame.event.get() may return, and the keys held.
FrameInputs ==
    {[events |-> ev, keys |-> {}] :
        ev \in {<<>>, <<"MOUSEBUTTONDOWN_1">>, <<"MOUSEBUTTONDOWN_3">>,
                <<"MOUSEBUTTONUP">>, <<"QUIT">>,
                <<"MOUSEBUTTONDOWN_1", "MOUSEBUTTONDOWN_1">>}}
    \cup {[events |-> <<>>, keys |-> {"K_r"}],
          [events |-> <<"MOUSEBUTTONDOWN_1">>, keys |-> {"K_ESCAPE"}]}

\* The names save_image makes from random.random().
ImageNames == {"0471938265.png"}

\* Number of left presses in a list of events.
RECURSIVE LeftPresses(_)
LeftPresses(events) ==
    IF events = <<>> THEN 0
    ELSE (IF Head(events) = "MOUSEBUTTONDOWN_1" THEN 1 ELSE 0) + LeftPresses(Tail(events))

\* The variates of one tree whose seed splits in two halves, n times over.
RECURSIVE TreeVariates(_)
TreeVariates(n) ==
    IF n = 0 THEN <<>>
    ELSE <<ZNeg, ZNeg, ZPos, ZNeg, ZHigh>> \o TreeVariates(n - 1)

\* The settings the event loop runs with: one activation per tree, or a tree
\* that is exhausted after three.
UISettings ==
    {st \in SettingsSet :
        \/ st.MAX_BRANCH_COUNT = 1 /\ st.MINIMUM_BRANCH_SIZE = FromRatio(3, 10000)
        \/ st.MAX_BRANCH_COUNT = 4 /\ st.MINIMUM_BRANCH_SIZE = FromRatio(1, 2)}

NoPress == [event |-> "none", mouse |-> <<0, 0>>, panel |-> <<0, 0>>, called |-> {}]

InitUI ==
    /\ settings \in UISettings
    /\ angle = Zero
    /\ click = <<"at", FInt(100), FInt(100)>>
    /\ pc = "event_loop"
    /\ stopped = "no"
    /\ i = 0
    /\ tree = NoTree
    /\ fractal_surface = <<>>
    /\ rng = [stream |-> TreeVariates(MaxTrees), pos |-> 0]
    /\ history = NoHistory
    /\ probe = NoProbe
    /\ ui = [phase |-> "top", controls_surface_pos |-> <<600, 60>>,
             controls_surface_dragged |-> FALSE, image_name |-> "",
             running |-> TRUE, mouse_pos |-> <<100, 100>>, rel_base |-> <<100, 100>>,
             events |-> <<>>, keys |-> {}, handled |-> 0, trees |-> 0,
             moves |-> 0, rotations |-> 0, last |-> NoPress]

\* pygame.event.get() at the top of a frame: the mouse is where it has moved
\* to, the keys are as held, and the frame's events are taken from the queue.
pump ==
    /\ pc = "event_loop"
    /\ ui.phase = "top"
    /\ ui.running
    /\ \E m \in MousePoints, input \in FrameInputs :
          /\ ui.handled + Len(input.events) <= MaxEvents
          /\ DrawsFractal(ui.controls_surface_pos, m) =>
                ui.trees + LeftPresses(input.events) <= MaxTrees
          /\ m # ui.mouse_pos => ui.moves < MaxMoves
          /\ "K_r" \in input.keys => ui.rotations < MaxRotations
          /\ ui' = [ui EXCEPT !.phase = "events", !.mouse_pos = m,
                              !.moves = IF m # ui.mouse_pos THEN @ + 1 ELSE @,
                              !.events = input.events, !.keys = input.keys,
                              !.last = NoPress]
    /\ UNCHANGED <<settings, angle, click, pc, stopped, i, tree, fractal_surface, rng,
                   history, probe>>

\* The body of the for loop for one event, the calls it makes included up to
\* the call of generate_tree, which the tree's own actions carry out.
handle_event ==
    /\ pc \in {"event_loop", "returned"}
    /\ ui.phase = "events"
    /\ ui.events # <<>>
    /\ LET event   == Head(ui.events)
           pos     == ui.controls_surface_pos
           point   == ui.mouse_pos
           quits   == event = "QUIT" \/ "K_ESCAPE" \in ui.keys
           left    == event = "MOUSEBUTTONDOWN_1"
           drags   == left /\ collidepoint(TitleBarRect(pos), point)
           actions == IF left THEN ButtonActions(pos, point) ELSE {}
           draws   == left /\ DrawsFractal(pos, point)
           handled == [ui EXCEPT
                         !.events = Tail(@),
                         !.handled = @ + 1,
                         !.running = IF quits THEN FALSE ELSE @,
                         !.controls_surface_dragged =
                             IF drags THEN TRUE
                             ELSE IF event = "MOUSEBUTTONUP" THEN FALSE ELSE @,
                         !.image_name = IF "save_image" \in actions
                                        THEN CHOOSE name \in ImageNames : TRUE ELSE @,
                         !.last = [event |-> event, mouse |-> point, panel |-> pos,
                                   called |-> (IF drags THEN {"drag"} ELSE {}) \cup actions
                                              \cup (IF draws THEN {"generate_tree"} ELSE {})]]
       IN  /\ fractal_surface' =
                 IF "clear_screen" \in actions THEN clear_screen(fractal_surface)
                 ELSE IF "save_image" \in actions THEN save_image(fractal_surface)
                 ELSE fractal_surface
           /\ \/ /\ "save_image" \in actions
                 \* pygame.image.save fails (no such folder): the error leaves the loop.
                 /\ pc' = "raised"
                 /\ ui' = [handled EXCEPT !.last.called = (@ \ {"generate_tree"}) \cup {"error"}]
                 /\ UNCHANGED click
              \/ /\ ui' = [handled EXCEPT !.trees = IF draws THEN @ + 1 ELSE @]
                 /\ IF draws
                    THEN /\ click' = <<"at", FInt(point[1]), FInt(point[2])>>
                         /\ pc' = "idle"
                    ELSE /\ pc' = "event_loop"
                         /\ UNCHANGED click
    /\ UNCHANGED <<settings, angle, stopped, i, tree, rng, history, probe>>

\* The rest of the frame once its events are handled: the rotation, the move
\* of a dragged panel by pygame.mouse.get_rel(), the rendering, and the test
\* of the while loop.
end_of_frame ==
    /\ pc \in {"event_loop", "returned"}
    /\ ui.phase = "events"
    /\ ui.events = <<>>
    /\ angle' = IF "K_r" \in ui.keys THEN FSub(angle, Rotation) ELSE angle
    /\ LET mouse_rel == RelativeTo(ui.rel_base, ui.mouse_pos)
       IN  ui' = [ui EXCEPT
                    !.phase = "top",
                    !.rel_base = ui.mouse_pos,
                    !.rotations = IF "K_r" \in ui.keys THEN @ + 1 ELSE @,
                    !.controls_surface_pos =
                        IF ui.controls_surface_dragged
                        THEN <<@[1] + mouse_rel[1], @[2] + mouse_rel[2]>> ELSE @]
    /\ pc' = IF ui.running THEN "event_loop" ELSE "exited"
    /\ UNCHANGED <<settings, click, stopped, i, tree, fractal_surface, rng, history, probe>>

NextUI == pump \/ handle_event \/ end_of_frame \/ Next

SpecUI == InitUI /\ [][NextUI]_vars

(***************************************************************************)
(* Properties of the branch list and of the loop (Spec, FairSpec).         *)
(***************************************************************************)

Slots == 0..(Len(tree.branches) - 1)

Activations == 1..Len(history.activated)

SplitsDone == 1..Len(history.splits)

\* Whether slot k has been activated.
IsActivated(k) == \E n \in Activations : history.activated[n].index = k

AboveMinimum(size) == FLess(settings.MINIMUM_BRANCH_SIZE, size)

\* C1, as the claim states it: every activated slot is empty afterwards, whether
\* the branch split or terminated.
C1_ActivatedSlotIsNone ==
    \A n \in Activations : At(tree.branches, history.activated[n].index) = None

\* C1, as amended: a slot holds its branch from the append until its activation;
\* after the activation it is None when the branch split (size above
\* MINIMUM_BRANCH_SIZE) and still holds the branch when it terminated.
C1_SlotNoneIffSplit ==
    /\ \A k \in Slots : ~IsActivated(k) =>
          /\ At(tree.branches, k) # None
          /\ At(tree.branches, k).index = k
    /\ \A n \in Activations :
          LET a == history.activated[n]
          IN  IF AboveMinimum(a.size)
              THEN At(tree.branches, a.index) = None
              ELSE /\ At(tree.branches, a.index) # None
                   /\ At(tree.branches, a.index).branch_size = a.size

C1_Witness ==
    \E n, m \in Activations :
        /\ AboveMinimum(history.activated[n].size)
        /\ At(tree.branches, history.activated[n].index) = None
        /\ ~AboveMinimum(history.activated[m].size)
        /\ At(tree.branches, history.activated[m].index) # None

\* C2: the n-th activation of a call is of slot n-1 (ascending, none skipped,
\* none twice), the loop stands at the number of activations made, and the two
\* children of a split of slot k are appended at slots above k, next to each other.
C2_AscendingActivation ==
    /\ \A n \in Activations : history.activated[n].index = n - 1
    /\ pc = "loop" => i = Len(history.activated)
    /\ \A s \in SplitsDone :
          LET sp == history.splits[s]
          IN  /\ sp.first > sp.index
              /\ sp.first + 1 < Len(tree.branches)
              /\ IsActivated(sp.index)
              /\ \A c \in {sp.first, sp.first + 1} :
                    \/ At(tree.branches, c) = None
                    \/ At(tree.branches, c).index = c
              /\ \A c \in {sp.first, sp.first + 1} :
                    IsActivated(c) => \A k \in 0..(c - 1) : IsActivated(k)

C2_Witness ==
    /\ Len(history.activated) >= 4
    /\ Len(history.splits) >= 3

\* C3: a call never makes more than MAX_BRANCH_COUNT activations; when it has
\* returned it has made exactly MAX_BRANCH_COUNT of them if the loop ran through
\* its range, and exactly as many as the list is long if an index was past the list.
C3_ActivationCount ==
    /\ Len(history.activated) <= settings.MAX_BRANCH_COUNT
    /\ pc = "returned" =>
          /\ stopped \in {"range", "IndexError"}
          /\ stopped = "range" =>
                /\ Len(history.activated) = settings.MAX_BRANCH_COUNT
                /\ Len(tree.branches) >= settings.MAX_BRANCH_COUNT
          /\ stopped = "IndexError" =>
                /\ Len(history.activated) = Len(tree.branches)
                /\ Len(tree.branches) < settings.MAX_BRANCH_COUNT

C3_Witness ==
    /\ pc = "returned"
    /\ stopped = "IndexError"
    /\ Len(history.activated) = 3
    /\ settings.MAX_BRANCH_COUNT = 5

\* C4: every call returns; no exception leaves it; and when the loop is left on
\* an index past the list, that index is the list's length and every branch
\* ever appended has been activated.
C4_Terminates ==
    /\ <>(pc = "returned")
    /\ [](/\ pc # "raised"
          /\ stopped = "IndexError" =>
                /\ pc = "returned"
                /\ i = Len(tree.branches)
                /\ \A k \in Slots : IsActivated(k))

C4_Witness ==
    /\ pc = "returned"
    /\ stopped = "IndexError"
    /\ i = Len(tree.branches)
    /\ Len(tree.branches) >= 3

Populated(k) == At(tree.branches, k) # None

InUnit(x) == FLeq(Zero, x) /\ FLeq(x, One)

\* The sizes of all branches the call has created: those in the list, those
\* activated, the parents and the children of every split.
SizesSeen ==
    {At(tree.branches, k).branch_size : k \in {c \in Slots : Populated(c)}}
    \cup {history.activated[n].size : n \in Activations}
    \cup {history.splits[s].prev_size : s \in SplitsDone}
    \cup {history.splits[s].children[c].branch_size : s \in SplitsDone, c \in {1, 2}}

SeedSizeIsOne ==
    /\ (pc = "loop" /\ Len(history.activated) = 0) => At(tree.branches, 0).branch_size = One
    /\ Len(history.activated) > 0 => history.activated[1].size = One

\* C7, as the claim states it: every branch has a size above 0 and at most 1.
C7_SizePositive ==
    /\ SeedSizeIsOne
    /\ \A x \in SizesSeen : FLess(Zero, x) /\ FLeq(x, One)

\* C7, as amended: every branch has a size from 0 to 1, both included (a split
\* of proportion 1 or 0 gives one child the size 0), and the seed's size is 1.
C7_SizeInUnitInterval ==
    /\ SeedSizeIsOne
    /\ \A x \in SizesSeen : InUnit(x)

C7_Witness ==
    \E k \in Slots :
        /\ Populated(k)
        /\ At(tree.branches, k).branch_size = Zero
        /\ \E s \in SplitsDone : history.splits[s].first + 1 = k

(***************************************************************************)
(* Properties of the pure functions (SpecProbe).                           *)
(***************************************************************************)

Applied(fn) == probe.fn = fn /\ probe.done

\* Exact comparison of two values.
ExactLeq(x, y) == ExactSum(x, FNeg(y))[1] <= 0

\* |x - y| <= 4 * 2^(-Precision) * y, in exact arithmetic: x is y up to the
\* rounding of the four operations that computed it.
WithinRounding(x, y) ==
    LET diff == ExactSum(x, FNeg(y))
    IN  ExactLeq(Canon(Abs(diff[1]), diff[2] + Precision - 2), y)

\* C6, as the claim states it: the two children's sizes add up to exactly the
\* parent's size.
C6_SizesAddUpExactly ==
    Applied("sizes") => FAdd(probe.out[1], probe.out[2]) = probe.args[1]

\* C6, as amended: the two children's sizes add up to the parent's size up to
\* floating-point rounding (a relative error of at most 4 * 2^(-Precision)),
\* and to exactly the parent's size when the proportion is 0 or 1.
C6_SizesAddUpToRounding ==
    Applied("sizes") =>
        /\ WithinRounding(FAdd(probe.out[1], probe.out[2]), probe.args[1])
        /\ probe.args[2] \in {Zero, One} =>
              FAdd(probe.out[1], probe.out[2]) = probe.args[1]

C6_Witness ==
    /\ Applied("sizes")
    /\ FLess(Zero, probe.args[2]) /\ FLess(probe.args[2], One)
    /\ FAdd(probe.out[1], probe.out[2]) # probe.args[1]
    /\ WithinRounding(FAdd(probe.out[1], probe.out[2]), probe.args[1])

\* C8: the proportion is the sample folded (1 + x below 0) and clamped to [0, 1]:
\* 0 for x <= -1, 1 + x for -1 < x < 0, x for 0 <= x <= 1 and 1 for x > 1; it
\* lies in [0, 1]; -0.05 gives 0.95, 1.3 gives 1 and -1.3 gives 0.
C8_ProportionFoldedAndClamped ==
    Applied("proportion") =>
        LET x == probe.args[1]
            p == probe.out[1]
        IN  /\ FLeq(Zero, p) /\ FLeq(p, One)
            /\ FLeq(x, FInt(-1)) => p = Zero
            /\ (FLess(FInt(-1), x) /\ FLess(x, Zero)) => p = FAdd(One, x)
            /\ (FLeq(Zero, x) /\ FLeq(x, One)) => p = x
            /\ FLess(One, x) => p = One
            /\ x = FromRatio(-5, 100) => p = FromRatio(95, 100)
            /\ x = FromRatio(13, 10) => p = One
            /\ x = FromRatio(-13, 10) => p = Zero

C8_Witness ==
    /\ Applied("proportion")
    /\ probe.args[1] = FromRatio(-5, 100)
    /\ probe.out[1] = FromRatio(95, 100)

\* C9: for a width below 1, draw passes every colour channel scaled by the
\* width and the width 1; for a width of 1 or more it passes the colour as
\* given and the width truncated to an integer, which is at least 1.  White at
\* width 0.4 is drawn with the channels 255 * 0.4 and the width 1; at width 2.7
\* it is drawn white with the width 2.
C9_DrawDimsThinLines ==
    Applied("draw") =>
        LET c   == probe.args[1]
            w   == probe.args[2]
            out == probe.out[1]
        IN  /\ FLess(w, One) =>
                  /\ \A ch \in 1..3 : out.color[ch] = FMul(c[ch], w)
                  /\ out.width = 1
            /\ FLeq(One, w) =>
                  /\ out.color = c
                  /\ out.width >= 1
                  /\ FLeq(FInt(out.width), w) /\ FLess(w, FInt(out.width + 1))
            /\ (c = White /\ w = FromRatio(4, 10)) =>
                  /\ out.color = <<FMul(FInt(255), FromRatio(4, 10)),
                                   FMul(FInt(255), FromRatio(4, 10)),
                                   FMul(FInt(255), FromRatio(4, 10))>>
                  /\ Trunc(out.color[1]) = 102
                  /\ out.width = 1
            /\ (c = White /\ w = FromRatio(27, 10)) =>
                  /\ out.color = White
                  /\ out.width = 2

C9_Witness ==
    /\ Applied("draw")
    /\ probe.args = <<White, FromRatio(4, 10)>>
    /\ probe.out[1].width = 1
    /\ probe.out[1].color[1] = FMul(FInt(255), FromRatio(4, 10))

(***************************************************************************)
(* Properties of a chain of splits (FairChain).                            *)
(***************************************************************************)

\* The followed child got the parent's whole size: the first child of a split
\* of proportion 1, or the second child of a split of proportion 0.
KeptWholeSize ==
    /\ probe.share # 0
    /\ \/ probe.share = 1 /\ ChainProportion[probe.draws] = One
       \/ probe.share = 2 /\ ChainProportion[probe.draws] = Zero

SegmentsOf(c) ==
    SubSeq(fractal_surface, history.calls[c].from + 1,
           IF history.calls[c].upto = -1 THEN Len(fractal_surface)
           ELSE history.calls[c].upto)

IsPrefix(a, b) == Len(a) <= Len(b) /\ a = SubSeq(b, 1, Len(a))

\* The variates are used in the order seed length, then per split proportion,
\* first length, second length, angle: the current call has consumed 1 + 4 per
\* split, and every child has the fields computed from the variates at these
\* places of the stream.
SamplesInOrder ==
    pc # "idle" =>
        /\ rng.pos = 1 + 4 * Len(history.splits)
        /\ Len(fractal_surface) > history.calls[Len(history.calls)].from =>
              fractal_surface[history.calls[Len(history.calls)].from + 1].pos2[4] =
                  gauss(tree.branch_length_mean, tree.branch_length_range, rng.stream[1])
        /\ \A s \in SplitsDone :
              LET sp == history.splits[s]
                  at == 1 + 4 * (s - 1)
                  p  == proportion(gauss(Zero, FromRatio(1, 10), rng.stream[at + 1]))
                  a  == FMul(gauss(tree.branch_angle_mean, tree.branch_angle_range,
                                   rng.stream[at + 4]),
                             Pow(sp.prev_size, tree.branch_angle_factor))
              IN  /\ sp.at = at
                  /\ sp.draws = SubSeq(rng.stream, at + 1, at + 4)
                  /\ sp.children[1].branch_size = branch_1_size(sp.prev_size, p)
                  /\ sp.children[2].branch_size = branch_2_size(sp.prev_size, p)
                  /\ sp.children[1].branch_length =
                        FMul(gauss(tree.branch_length_mean, tree.branch_length_range,
                                   rng.stream[at + 2]),
                             Pow(sp.children[1].branch_size, tree.branch_length_factor))
                  /\ sp.children[2].branch_length =
                        FMul(gauss(tree.branch_length_mean, tree.branch_length_range,
                                   rng.stream[at + 3]),
                             Pow(sp.children[2].branch_size, tree.branch_length_factor))
                  /\ sp.children[1].branch_direction =
                        branch_1_angle(sp.prev_direction, a, p)
                  /\ sp.children[2].branch_direction =
                        branch_2_angle(sp.prev_direction, a, p)

\* C10: a call consumes the samples in the order seed length, then per split
\* proportion, first child's length, second child's length, angle; and a second
\* call with the same origin, direction, preset and the same samples draws the
\* same segments in the same order (end points, colour, width), consuming
\* exactly the samples the first call consumed.
C10_SameSamplesSameSegments ==
    /\ SamplesInOrder
    /\ (Len(history.calls) = 2 /\ pc # "idle") =>
          /\ IsPrefix(SegmentsOf(2), SegmentsOf(1))
          /\ rng.pos <= history.calls[1].consumed
          /\ Len(rng.stream) = history.calls[1].consumed
          /\ pc = "returned" =>
                /\ SegmentsOf(2) = SegmentsOf(1)
                /\ rng.pos = history.calls[1].consumed

C10_Witness ==
    /\ Len(history.calls) = 2
    /\ pc = "returned"
    /\ Len(history.splits) >= 2
    /\ Len(SegmentsOf(2)) >= 4
    /\ SegmentsOf(2) = SegmentsOf(1)
    /\ rng.pos = 9

(***************************************************************************)
(* Properties of the event loop (SpecUI).                                  *)
(***************************************************************************)

\* The click a position of a tree starts from.
RECURSIVE Root(_)
Root(pos) == IF pos[1] = "at" THEN pos ELSE Root(pos[2])

\* The tree of the running or last call holds its own branches only: one seed
\* and two children per split, all growing from the click of this call, and
\* right after its construction the seed alone.
FreshBranchList ==
    pc \in {"loop", "returned"} =>
        /\ Len(tree.branches) = 1 + 2 * Len(history.splits)
        /\ \A k \in Slots : Populated(k) => Root(At(tree.branches, k).pos) = click
        /\ (pc = "loop" /\ i = 0) =>
              /\ Len(tree.branches) = 1
              /\ At(tree.branches, 0).index = 0
              /\ At(tree.branches, 0).pos = click
              /\ At(tree.branches, 0).branch_size = One

\* The step is the handling of an event that called the action.
Calls(action) == ui'.handled = ui.handled + 1 /\ action \in ui'.last.called

\* C11: every generate_tree call starts from a branch list holding only its own
\* seed; generate_tree and save_image only add segments to the surface or leave
\* it unchanged; and segments are removed by the clear_screen action only.
C11_SurfaceOnlyGrowsUntilCleared ==
    /\ []FreshBranchList
    /\ [][/\ ~IsPrefix(fractal_surface, fractal_surface') =>
                Calls("clear_screen") /\ fractal_surface' = <<>>
          /\ Calls("save_image") => fractal_surface' = fractal_surface
          /\ pc \in {"idle", "loop"} => IsPrefix(fractal_surface, fractal_surface')]_vars

C11_Witness ==
    /\ ui.phase = "events"
    /\ Len(history.calls) = 2
    /\ pc = "loop" /\ i = 0
    /\ Len(fractal_surface) >= 1
    /\ Len(tree.branches) = 1
    /\ history.calls[2].from = Len(fractal_surface)

\* The click lies off the panel at position pos.
OffPanel(pos, point) ==
    \/ point[1] < pos[1] \/ point[1] >= pos[1] + 120
    \/ point[2] < pos[2] \/ point[2] >= pos[2] + 260

\* C12: a left press calls generate_tree, once, if and only if the click lies
\* outside the panel's rectangle at the panel's current position; a press that
\* starts a drag on the title bar or calls a button's action calls no
\* generate_tree, and no other event does.
C12_TreeIffPressOffPanel ==
    /\ ui.trees = Len(history.calls) + (IF pc = "idle" THEN 1 ELSE 0)
    /\ ui.last.event = "MOUSEBUTTONDOWN_1" =>
          /\ "generate_tree" \in ui.last.called <=> OffPanel(ui.last.panel, ui.last.mouse)
          /\ ui.last.called \cap {"drag", "clear_screen", "save_image"} # {} =>
                "generate_tree" \notin ui.last.called
    /\ ui.last.event # "MOUSEBUTTONDOWN_1" => "generate_tree" \notin ui.last.called
    /\ pc = "idle" => "generate_tree" \in ui.last.called

C12_Witness ==
    /\ ui.last.event = "MOUSEBUTTONDOWN_1"
    /\ ui.last.called = {"generate_tree"}
    /\ ui.last.panel # <<600, 60>>
    /\ pc = "loop"

(***************************************************************************)
(* Further properties of the branch list and of the loop (Spec).           *)
(***************************************************************************)

\* The slots emptied so far.
EmptySlots == {k \in Slots : ~Populated(k)}

\* C13: the loop never requests an empty slot: the slot at the index requested
\* next holds a branch whenever the index is within the list, every empty slot
\* is below that index and is that of an activation that split, no index has
\* been requested twice, and no exception other than the IndexError of an index
\* past the list arises.
C13_NeverActivatesEmptySlot ==
    /\ pc # "raised"
    /\ (pc = "loop" /\ i < Len(tree.branches)) => Populated(i)
    /\ \A k \in EmptySlots :
          /\ pc = "loop" => k < i
          /\ \E n \in Activations :
                history.activated[n].index = k /\ AboveMinimum(history.activated[n].size)
    /\ \A n, m \in Activations :
          history.activated[n].index = history.activated[m].index => n = m

C13_Witness ==
    /\ pc = "loop"
    /\ i >= 3
    /\ i < Len(tree.branches)
    /\ Populated(i)
    /\ Cardinality(EmptySlots) >= 2

\* The step is an activation (the loop moves on to the next index).
Activates == pc = "loop" /\ pc' = "loop" /\ i' # i

\* C14: an activation draws exactly one segment; it appends exactly two
\* children at the end of the list when the branch's size is above
\* MINIMUM_BRANCH_SIZE and nothing when it is not; no entry is removed or moved
\* (only the activated slot changes), so the list never gets shorter and its
\* length is 1 + 2 * (number of splits).
C14_OneSegmentTwoChildrenOrNone ==
    /\ [](pc \in {"loop", "returned"} =>
             /\ Len(tree.branches) = 1 + 2 * Len(history.splits)
             /\ Len(fractal_surface) = Len(history.activated))
    /\ [][Activates =>
             /\ Len(fractal_surface') = Len(fractal_surface) + 1
             /\ SubSeq(fractal_surface', 1, Len(fractal_surface)) = fractal_surface
             /\ Len(tree'.branches) =
                   Len(tree.branches) +
                   (IF FLess(settings.MINIMUM_BRANCH_SIZE, At(tree.branches, i).branch_size)
                    THEN 2 ELSE 0)
             /\ \A k \in Slots : k # i => At(tree'.branches, k) = At(tree.branches, k)
             /\ \A k \in Len(tree.branches)..(Len(tree'.branches) - 1) :
                   At(tree'.branches, k) # None]_vars
    /\ [][pc = "loop" => Len(tree'.branches) >= Len(tree.branches)]_vars

C14_Witness ==
    /\ settings.MINIMUM_BRANCH_SIZE = FromRatio(3, 10000)
    /\ Len(history.splits) >= 2
    /\ Len(tree.branches) = 1 + 2 * Len(history.splits)
    /\ \E n \in Activations : ~AboveMinimum(history.activated[n].size)

\* C15: every branch in the list records its own slot (branches[k].index = k:
\* 0 for the seed, the list's length at the split and that plus one for the two
\* children), so the slot a split empties is the slot of the branch being
\* activated: the empty slots are exactly those of the activations that split.
C15_BranchRecordsItsSlot ==
    /\ \A k \in Slots : Populated(k) => At(tree.branches, k).index = k
    /\ \A n \in Activations : history.activated[n].slot = history.activated[n].index
    /\ \A s \in SplitsDone :
          LET sp == history.splits[s]
          IN  /\ sp.children[1].index = sp.first
              /\ sp.children[2].index = sp.first + 1
              /\ sp.first = 1 + 2 * (s - 1)
              /\ At(tree.branches, sp.index) = None
    /\ EmptySlots = {history.splits[s].index : s \in SplitsDone}
    /\ Cardinality(EmptySlots) = Len(history.splits)

C15_Witness ==
    /\ Len(history.splits) >= 2
    /\ \E k \in Slots : k >= 4 /\ Populated(k) /\ At(tree.branches, k).index = k
    /\ EmptySlots = {history.splits[s].index : s \in SplitsDone}

\* C18: when the loop stops on an index past the list, every slot is empty or
\* holds a branch of a size at or below MINIMUM_BRANCH_SIZE (nothing that could
\* split is left); when it stops because the range is used up, the slots from
\* MAX_BRANCH_COUNT on are unactivated, still hold their branches, and the call
\* has drawn MAX_BRANCH_COUNT segments, none of them for these slots.
C18_NothingLeftToSplitWhenExhausted ==
    /\ (pc = "returned" /\ stopped = "IndexError") =>
          \A k \in Slots :
              \/ ~Populated(k)
              \/ FLeq(At(tree.branches, k).branch_size, settings.MINIMUM_BRANCH_SIZE)
    /\ (pc = "returned" /\ stopped = "range") =>
          /\ Len(fractal_surface) = settings.MAX_BRANCH_COUNT
          /\ \A k \in Slots : k >= settings.MAX_BRANCH_COUNT =>
                /\ ~IsActivated(k)
                /\ Populated(k)
                /\ \A n \in Activations : history.activated[n].slot # k

C18_Witness ==
    /\ pc = "returned"
    /\ stopped = "IndexError"
    /\ Len(tree.branches) >= 3
    /\ \E k \in Slots : ~Populated(k)
    /\ \E k \in Slots :
          /\ Populated(k)
          /\ IsActivated(k)
          /\ FLeq(At(tree.branches, k).branch_size, settings.MINIMUM_BRANCH_SIZE)

(***************************************************************************)
(* The children's directions (SpecProbe).                                  *)
(***************************************************************************)

FAbs(x) == <<Abs(x[1]), x[2]>>

\* Exact product and difference of two values (no rounding).
ExactMul(x, y) == Canon(x[1] * y[1], x[2] + y[2])

ExactSub(x, y) == ExactSum(x, FNeg(y))

\* |x - y| <= 8 * 2^(-Precision) * (|d| + |a|), in exact arithmetic: x is y up
\* to the rounding of the operations on a direction d and an angle a.
WithinAngleRounding(x, y, d, a) ==
    LET scale == ExactSum(FAbs(d), FAbs(a))
    IN  ExactLeq(FAbs(ExactSub(x, y)), Canon(scale[1], scale[2] + 3 - Precision))

\* d - a * (1 - p) and d + a * p, in exact arithmetic.
ExactAngle1(d, a, p) == ExactSub(d, ExactMul(a, ExactSub(One, p)))

ExactAngle2(d, a, p) == ExactSum(d, ExactMul(a, p))

\* C16, as the claim states it: the first child's direction is d - a * (1 - p),
\* the second child's is d + a * p, and the two directions differ by exactly a.
C16_DirectionsDifferByExactlyAngle ==
    Applied("angles") =>
        LET d == probe.args[1]
            a == probe.args[2]
            p == probe.args[3]
        IN  /\ probe.out[1] = ExactAngle1(d, a, p)
            /\ probe.out[2] = ExactAngle2(d, a, p)
            /\ ExactSub(probe.out[2], probe.out[1]) = a

\* C16, as amended: the first child's direction is d - a * (1 - p) and the
\* second child's is d + a * p, each up to floating-point rounding; the child
\* with the larger share is given the offset of no larger magnitude (a * (1 - p)
\* against a * p); the two directions differ by a up to rounding, and by
\* exactly a only where no operation rounds (as for a = 0).
C16_DirectionsDifferByAngleToRounding ==
    Applied("angles") =>
        LET d  == probe.args[1]
            a  == probe.args[2]
            p  == probe.args[3]
            o1 == FMul(a, FSub(One, p))
            o2 == FMul(a, p)
        IN  /\ WithinAngleRounding(probe.out[1], ExactAngle1(d, a, p), d, a)
            /\ WithinAngleRounding(probe.out[2], ExactAngle2(d, a, p), d, a)
            /\ FLess(FSub(One, p), p) => ExactLeq(FAbs(o1), FAbs(o2))
            /\ FLess(p, FSub(One, p)) => ExactLeq(FAbs(o2), FAbs(o1))
            /\ (a[1] # 0 /\ FLess(FSub(One, p), p)) =>
                  ~ExactLeq(FAbs(ExactMul(a, p)), FAbs(ExactMul(a, ExactSub(One, p))))
            /\ WithinAngleRounding(ExactSub(probe.out[2], probe.out[1]), a, d, a)
            /\ a = Zero => probe.out[1] = d /\ probe.out[2] = d
            /\ FLeq(Zero, a) => FLeq(probe.out[1], d) /\ FLeq(d, probe.out[2])
            /\ FLeq(a, Zero) => FLeq(probe.out[2], d) /\ FLeq(d, probe.out[1])

C16_Witness ==
    /\ Applied("angles")
    /\ probe.args[2][1] # 0
    /\ FLess(FSub(One, probe.args[3]), probe.args[3])
    /\ FLess(probe.args[3], One)
    /\ ExactSub(probe.out[2], probe.out[1]) # probe.args[2]
    /\ WithinAngleRounding(ExactSub(probe.out[2], probe.out[1]), probe.args[2],
                           probe.args[1], probe.args[2])

(***************************************************************************)
(* The sizes held in the branch list (Spec).                               *)
(***************************************************************************)

\* The exact sum of the sizes of the branches in the first n slots.
RECURSIVE SizeSum(_, _)
SizeSum(branches, n) ==
    IF n = 0 THEN Zero
    ELSE IF branches[n] = None THEN SizeSum(branches, n - 1)
    ELSE ExactSum(SizeSum(branches, n - 1), branches[n].branch_size)

TotalSize == SizeSum(tree.branches, Len(tree.branches))

\* C17, as the claim states it: between activations the sizes of the branches
\* in the non-empty slots add up to exactly 1.
C17_SizesAddUpToExactlyOne ==
    pc \in {"loop", "returned"} => TotalSize = One

\* C17, as amended: between activations the sizes of the branches in the
\* non-empty slots add up to 1 up to floating-point rounding: each split
\* replaces a size by two that add up to it within a relative error of
\* 4 * 2^(-Precision), so the total is within that error times the number of
\* splits of 1 (exactly 1 before the first split), and no size is negative or
\* above 1.
C17_SizesAddUpToOneWithinRounding ==
    pc \in {"loop", "returned"} =>
        /\ ExactLeq(FAbs(ExactSub(TotalSize, One)),
                    Canon(Len(history.splits), 2 - Precision))
        /\ \A k \in Slots : Populated(k) => InUnit(At(tree.branches, k).branch_size)

C17_Witness ==
    /\ pc = "loop"
    /\ Len(history.splits) >= 2
    /\ TotalSize # One
    /\ ExactLeq(FAbs(ExactSub(TotalSize, One)), Canon(Len(history.splits), 2 - Precision))
    /\ \E k \in Slots : Populated(k) /\ IsActivated(k)

====
